---- MODULE Spec2Model ----
(***************************************************************************)
(* razer-ctl: device identification and command transport                  *)
(* (librazer/src/device.rs) and the CLI entry points that drive it         *)
(* (razer-cli/src/main.rs).                                                *)
(*                                                                         *)
(* The machine (HID interfaces, firmware SKU, build target, descriptor     *)
(* table) is fixed in Init.  One CLI process at a time runs enumerate,     *)
(* detect or a manual open, then sends reports through the session, then   *)
(* exits.  Every library call is one action; the OS calls it makes, in     *)
(* order, are recorded in trace.                                           *)
(***************************************************************************)
EXTENDS Integers, Sequences, FiniteSets, TLC

\* ------------------------------------------------------------ bounds
MaxIfaces == 2
MaxTable == 2
MaxArgs == 1

\* ------------------------------------------------------------ constants
RAZER_VID == 5426
PRE_WRITE_MICROS == 1000
POST_WRITE_MICROS == 2000
SKU_CLIP == 10
FrameSize == 3

\* ------------------------------------------------------------ strings
\* A string is a sequence of one-character strings.
RZ == <<"R", "Z">>
RZ09 == <<"R", "Z", "0", "9", "-">>
Whitespace == {" ", "\n"}

\* str::starts_with
StartsWith(s, p) ==
    /\ Len(p) <= Len(s)
    /\ SubSeq(s, 1, Len(p)) = p

RECURSIVE TrimStart(_)
TrimStart(s) ==
    IF s # <<>> /\ Head(s) \in Whitespace THEN TrimStart(Tail(s)) ELSE s

RECURSIVE TrimEnd(_)
TrimEnd(s) ==
    IF s # <<>> /\ s[Len(s)] \in Whitespace
    THEN TrimEnd(SubSeq(s, 1, Len(s) - 1))
    ELSE s

\* str::trim
Trim(s) == TrimEnd(TrimStart(s))

\* chars().take(n).collect()
Take(s, n) == SubSeq(s, 1, IF Len(s) < n THEN Len(s) ELSE n)

\* ------------------------------------------------------------ value sets
Platforms == {"windows", "linux", "other"}
Pids == {1, 2}
Vids == {RAZER_VID, 1133}
ALL_FEATURES == {"fan", "perf", "kbd-backlight"}
Prefixes == {<<"R", "Z", "0", "9", "-", "0", "4">>,
             <<"R", "Z", "0", "9", "-", "0", "4", "1">>,
             <<"R", "Z", "0", "9", "-", "0", "3">>}

\* What the firmware holds as SKU; <<"?">> stands for a value that cannot be read.
Unreadable == <<"?">>
Skus == {<<"R", "Z", "0", "9", "-", "0", "4", "1", "0", "\n">>,
         <<"R", "Z", "0", "9", "-", "0", "4", "0", "0", "A", "B">>,
         <<"R", "Z", "0", "9", "-", "0", "3", "0", "0">>,
         <<"R", "Z", "0", "8", "-", "0", "0", "0", "1">>,
         <<"A", "B", "1", "2", "-", "0", "0", "0", "1">>,
         Unreadable}

VARIABLES platform, sku, hid, hidapi_ok, SUPPORTED,
          device, handles, pc, op, pid_arg, new_arg, report, io, result, trace, cli

vars == <<platform, sku, hid, hidapi_ok, SUPPORTED,
          device, handles, pc, op, pid_arg, new_arg, report, io, result, trace, cli>>
env == <<platform, sku, hid, hidapi_ok, SUPPORTED>>

\* ------------------------------------------------------------ results
NoFrame == <<>>
NoModel == <<>>
Ev(e, x) == [ev |-> e, on |-> x]
Ok == [ok |-> TRUE, err |-> "", pids |-> <<>>, model |-> NoModel, frame |-> NoFrame]
Err(e) == [ok |-> FALSE, err |-> e, pids |-> <<>>, model |-> NoModel, frame |-> NoFrame]
\* The value of result while a call has not returned.
Pending == Err("pending")

\* ------------------------------------------------------------ platform identity
\* read_device_model, target_os = "windows": the registry value clipped to 10 chars.
ReadModelWindows(raw) ==
    IF raw = Unreadable
    THEN [ok |-> FALSE, model |-> NoModel, err |-> "registry read error"]
    ELSE [ok |-> TRUE, model |-> Take(raw, SKU_CLIP), err |-> ""]

\* read_device_model, target_os = "linux": the DMI file trimmed, "RZ" required.
ReadModelLinux(raw) ==
    IF raw = Unreadable
    THEN [ok |-> FALSE, model |-> NoModel, err |-> "DMI read error"]
    ELSE IF StartsWith(Trim(raw), RZ)
         THEN [ok |-> TRUE, model |-> Trim(raw), err |-> ""]
         ELSE [ok |-> FALSE, model |-> NoModel, err |-> "Invalid Razer SKU"]

\* read_device_model on any other target.
ReadModelOther(raw) ==
    [ok |-> FALSE, model |-> NoModel,
     err |-> "Automatic model detection is not implemented for this platform"]

read_device_model(plat, raw) ==
    CASE plat = "windows" -> ReadModelWindows(raw)
      [] plat = "linux" -> ReadModelLinux(raw)
      [] OTHER -> ReadModelOther(raw)

\* ------------------------------------------------------------ Device::new
Indices(h) == [i \in 1..Len(h) |-> i]

\* The filter on the product id alone, whatever the vendor.
CandidatesAnyVendor(h, pid) ==
    SelectSeq(Indices(h), LAMBDA i : h[i].pid = pid)

\* api.device_list().filter(|info| (vid, pid) == (RAZER_VID, descriptor.pid)):
\* the paths (positions in the enumeration) of the matching interfaces, in order.
Candidates(h, pid) ==
    SelectSeq(Indices(h), LAMBDA i : h[i].vid = RAZER_VID /\ h[i].pid = pid)

\* Device::new's loop without the probe: the first candidate that opens is taken.
NewLoopNoProbe(h, cands, k, tr) ==
    IF k > Len(cands)
    THEN [ok |-> FALSE, err |-> "Failed to open device", path |-> 0, trace |-> tr]
    ELSE IF ~h[cands[k]].opens
    THEN [ok |-> FALSE, err |-> "hid open error", path |-> 0,
          trace |-> tr \o <<Ev("open_failed", cands[k])>>]
    ELSE [ok |-> TRUE, err |-> "", path |-> cands[k],
          trace |-> tr \o <<Ev("open", cands[k]), Ev("probe", cands[k])>>]

\* Device::new's loop keeping every handle it opened until it returns.
RECURSIVE NewLoopLeaky(_, _, _, _)
NewLoopLeaky(h, cands, k, tr) ==
    IF k > Len(cands)
    THEN [ok |-> FALSE, err |-> "Failed to open device", path |-> 0, trace |-> tr]
    ELSE IF ~h[cands[k]].opens
    THEN [ok |-> FALSE, err |-> "hid open error", path |-> 0,
          trace |-> tr \o <<Ev("open_failed", cands[k])>>]
    ELSE IF h[cands[k]].probe
    THEN [ok |-> TRUE, err |-> "", path |-> cands[k],
          trace |-> tr \o <<Ev("open", cands[k]), Ev("probe", cands[k])>>]
    ELSE NewLoopLeaky(h, cands, k + 1,
                      tr \o <<Ev("open", cands[k]), Ev("probe", cands[k])>>)

\* The for loop of Device::new from candidate k on. tr is the OS calls made so far.
\* A handle that rejected the probe is dropped at the end of its iteration.
RECURSIVE NewLoop(_, _, _, _)
NewLoop(h, cands, k, tr) ==
    IF k > Len(cands)
    THEN [ok |-> FALSE, err |-> "Failed to open device", path |-> 0, trace |-> tr]
    ELSE LET i == cands[k] IN
         IF ~h[i].opens
         THEN [ok |-> FALSE, err |-> "hid open error", path |-> 0,
               trace |-> tr \o <<Ev("open_failed", i)>>]
         ELSE IF h[i].probe
              THEN [ok |-> TRUE, err |-> "", path |-> i,
                    trace |-> tr \o <<Ev("open", i), Ev("probe", i)>>]
              ELSE NewLoop(h, cands, k + 1,
                           tr \o <<Ev("open", i), Ev("probe", i), Ev("close", i)>>)

\* Device::new(descriptor)
DeviceNew(h, apiok, descriptor, tr) ==
    IF ~apiok
    THEN [ok |-> FALSE, err |-> "Failed to create hid api", path |-> 0,
          trace |-> tr \o <<Ev("hid_init_failed", 0)>>]
    ELSE NewLoop(h, Candidates(h, descriptor.pid), 1, tr \o <<Ev("hid_enumerate", 0)>>)

\* ------------------------------------------------------------ Device::enumerate
\* The product ids of the interfaces under RAZER_VID, as a set.
RazerPids(h) == {h[i].pid : i \in {j \in 1..Len(h) : h[j].vid = RAZER_VID}}

\* The product ids collected without the HashSet: one entry per interface.
PidsPerInterface(h) ==
    LET r == SelectSeq(Indices(h), LAMBDA i : h[i].vid = RAZER_VID) IN
    {[k \in 1..Len(r) |-> h[r[k]].pid]}

\* HashSet -> Vec: every order of the distinct product ids is a possible outcome.
PidOrders(h) ==
    {s \in [1..Cardinality(RazerPids(h)) -> RazerPids(h)] :
        \A a, b \in DOMAIN s : a # b => s[a] # s[b]}

\* Device::enumerate with the model read before the interfaces are looked at.
EnumerateModelFirst(h, apiok, plat, raw, pids) ==
    IF ~apiok
    THEN [res |-> Err("HID API error"), trace |-> <<Ev("hid_init_failed", 0)>>]
    ELSE LET m == read_device_model(plat, raw)
             tr == <<Ev("read_model", 0), Ev("hid_enumerate", 0)>>
         IN  IF ~m.ok
             THEN [res |-> Err("Failed to detect model"), trace |-> tr]
             ELSE IF RazerPids(h) = {}
             THEN [res |-> Err("No Razer devices found"), trace |-> tr]
             ELSE IF ~StartsWith(m.model, RZ09)
             THEN [res |-> [Err("Detected model is not a Razer laptop")
                              EXCEPT !.model = m.model],
                   trace |-> tr]
             ELSE [res |-> [Ok EXCEPT !.pids = pids, !.model = m.model], trace |-> tr]

\* Device::enumerate(); pids is the order the HashSet happened to yield.
Enumerate(h, apiok, plat, raw, pids) ==
    IF ~apiok
    THEN [res |-> Err("HID API error"), trace |-> <<Ev("hid_init_failed", 0)>>]
    ELSE IF RazerPids(h) = {}
    THEN [res |-> Err("No Razer devices found"), trace |-> <<Ev("hid_enumerate", 0)>>]
    ELSE LET m == read_device_model(plat, raw)
             tr == <<Ev("hid_enumerate", 0), Ev("read_model", 0)>>
         IN  IF ~m.ok
             THEN [res |-> Err("Failed to detect model"), trace |-> tr]
             ELSE IF ~StartsWith(m.model, RZ09)
             THEN [res |-> [Err("Detected model is not a Razer laptop")
                              EXCEPT !.model = m.model],
                   trace |-> tr]
             ELSE [res |-> [Ok EXCEPT !.pids = pids, !.model = m.model], trace |-> tr]

\* ------------------------------------------------------------ Device::detect
\* SUPPORTED.iter().find(|d| model.starts_with(d.model_number_prefix)):
\* the position of the descriptor found, 0 for None.
RECURSIVE FindFrom(_, _, _)
FindFrom(table, model, k) ==
    IF k > Len(table) THEN 0
    ELSE IF StartsWith(model, table[k].model_number_prefix) THEN k
    ELSE FindFrom(table, model, k + 1)

\* The descriptor with the longest matching prefix instead of the first.
FindLongestPrefix(table, model) ==
    LET M == {k \in 1..Len(table) : StartsWith(model, table[k].model_number_prefix)} IN
    IF M = {} THEN 0
    ELSE CHOOSE k \in M :
           \A j \in M : /\ Len(table[j].model_number_prefix)
                             <= Len(table[k].model_number_prefix)
                        /\ (Len(table[j].model_number_prefix)
                              = Len(table[k].model_number_prefix) => k <= j)

Find(table, model) == FindFrom(table, model, 1)

\* Device::detect()
Detect(h, apiok, plat, raw, table, pids) ==
    LET e == Enumerate(h, apiok, plat, raw, pids) IN
    IF ~e.res.ok
    THEN [res |-> e.res, path |-> 0, info |-> <<>>, trace |-> e.trace]
    ELSE LET k == Find(table, e.res.model) IN
         IF k = 0
         THEN [res |-> [Err("Model is not supported")
                          EXCEPT !.model = e.res.model, !.pids = e.res.pids],
               path |-> 0, info |-> <<>>, trace |-> e.trace]
         ELSE LET n == DeviceNew(h, apiok, table[k], e.trace) IN
              [res |-> IF n.ok THEN Ok ELSE Err(n.err),
               path |-> n.path, info |-> <<table[k]>>, trace |-> n.trace]

\* The placeholder descriptor with a reduced capability set.
ManualDescriptorFanOnly(pid) ==
    [model_number_prefix |-> <<"U", "n", "k", "n", "o", "w", "n">>,
     pid |-> pid, features |-> {"fan"}]

\* main, "manual": the placeholder descriptor with the caller's product id.
ManualDescriptor(pid) ==
    [model_number_prefix |-> <<"U", "n", "k", "n", "o", "w", "n">>,
     pid |-> pid, features |-> ALL_FEATURES]

\* ------------------------------------------------------------ Packet
\* A frame on the wire is FrameSize bytes: command class, command id, the
\* argument bytes, and a checksum over all of them.
Bytes == {0, 1}
ArgLen == FrameSize - 3

RECURSIVE Sum(_)
Sum(s) == IF s = <<>> THEN 0 ELSE Head(s) + Sum(Tail(s))

Checksum(body) == Sum(body) % 2

\* Packet::new
PacketNew(class, id, args) ==
    [command_class |-> class, command_id |-> id, args |-> args,
     crc |-> Checksum(<<class, id>> \o args)]

\* Into<Vec<u8>> for &Packet
Encode(p) == <<p.command_class, p.command_id>> \o p.args \o <<p.crc>>

\* TryFrom<&[u8]> for Packet: fails unless the checksum verifies.
TryIntoPacket(bytes) ==
    IF Len(bytes) # FrameSize
    THEN [ok |-> FALSE, frame |-> NoFrame]
    ELSE IF bytes[FrameSize] # Checksum(SubSeq(bytes, 1, FrameSize - 1))
    THEN [ok |-> FALSE, frame |-> NoFrame]
    ELSE [ok |-> TRUE,
          frame |-> [command_class |-> bytes[1], command_id |-> bytes[2],
                     args |-> SubSeq(bytes, 3, FrameSize - 1),
                     crc |-> bytes[FrameSize]]]

\* Packet::ensure_matches_report: the command identity of the response is the request's.
MatchesReport(response, request) ==
    /\ response.command_class = request.command_class
    /\ response.command_id = request.command_id

\* ------------------------------------------------------------ Device::send
\* What the OS does to one send call: whether the write is accepted, whether the
\* read is, the byte count it returns and the buffer it leaves.
\* response_buf starts as zeros, so the bytes past the count read are 0.
Zeros(n) == [i \in 1..n |-> 0]
Buffers(n) ==
    IF n = 0 THEN {Zeros(1 + FrameSize)}
    ELSE {<<0>> \o b \o Zeros(1 + FrameSize - n) : b \in [1..(n - 1) -> Bytes]}
ReadOutcomes ==
    {[read_ok |-> FALSE, n |-> 0, buf |-> Zeros(1 + FrameSize)]}
    \cup UNION {{[read_ok |-> TRUE, n |-> n, buf |-> b] : b \in Buffers(n)} :
                  n \in 0..(1 + FrameSize)}
NoRead == [read_ok |-> FALSE, n |-> 0, buf |-> <<>>]
NoIo == [write_ok |-> FALSE, read |-> NoRead]

\* A write that is issued again when it fails.
WriteStepRetry(dev, write_ok) ==
    [ok |-> write_ok,
     trace |-> IF write_ok
               THEN <<Ev("sleep", PRE_WRITE_MICROS), Ev("write", dev.path)>>
               ELSE <<Ev("sleep", PRE_WRITE_MICROS), Ev("write", dev.path),
                      Ev("write", dev.path)>>]

\* lines 80-90: the settle delay, then the feature report write on the session's handle.
WriteStep(dev, write_ok) ==
    [ok |-> write_ok,
     trace |-> <<Ev("sleep", PRE_WRITE_MICROS), Ev("write", dev.path)>>]

\* A read issued right after the write, the processing delay left out.
ReadStepNoDelay(dev, rd) ==
    [ok |-> rd.read_ok, n |-> rd.n, buf |-> rd.buf,
     trace |-> <<Ev("read", dev.path)>>]

\* lines 92-93: the processing delay, then the feature report read on the session's handle.
ReadStep(dev, rd) ==
    [ok |-> rd.read_ok, n |-> rd.n, buf |-> rd.buf,
     trace |-> <<Ev("sleep", POST_WRITE_MICROS), Ev("read", dev.path)>>]

\* The size check without the report id byte.
SizeMismatchOffByOne(n) == n # FrameSize

\* line 93: response_buf.len() != bytes read
SizeMismatch(n) == n # 1 + FrameSize

\* The response returned as decoded, not matched with the request.
DecodeUnmatched(buf, rep) ==
    LET d == TryIntoPacket(Tail(buf)) IN
    IF ~d.ok
    THEN [res |-> Err("checksum"), trace |-> <<Ev("decode", 0)>>]
    ELSE [res |-> [Ok EXCEPT !.frame = d.frame], trace |-> <<Ev("decode", 0)>>]

\* The identity compared on the raw bytes before the checksum is verified.
ValidateBeforeDecode(buf, rep) ==
    IF buf[2] # rep.command_class \/ buf[3] # rep.command_id
    THEN [res |-> Err("Response does not match the report"),
          trace |-> <<Ev("validate", 0)>>]
    ELSE LET d == TryIntoPacket(Tail(buf)) IN
         IF ~d.ok
         THEN [res |-> Err("checksum"), trace |-> <<Ev("validate", 0), Ev("decode", 0)>>]
         ELSE [res |-> [Ok EXCEPT !.frame = d.frame],
               trace |-> <<Ev("validate", 0), Ev("decode", 0)>>]

\* lines 97-99: decode the buffer past the report id, then match it with the request.
DecodeAndValidate(buf, rep) ==
    LET d == TryIntoPacket(Tail(buf)) IN
    IF ~d.ok
    THEN [res |-> Err("checksum"), trace |-> <<Ev("decode", 0)>>]
    ELSE IF ~MatchesReport(d.frame, rep)
    THEN [res |-> Err("Response does not match the report"),
          trace |-> <<Ev("decode", 0), Ev("validate", 0)>>]
    ELSE [res |-> [Ok EXCEPT !.frame = d.frame],
          trace |-> <<Ev("decode", 0), Ev("validate", 0)>>]

\* Device::send from line 92 on, once the write has been accepted.
SendTail(dev, rep, rd) ==
    LET r == ReadStep(dev, rd) IN
    IF ~r.ok
    THEN [res |-> Err("hid read error"), trace |-> r.trace]
    ELSE IF SizeMismatch(r.n)
    THEN [res |-> Err("Response size"), trace |-> r.trace]
    ELSE LET v == DecodeAndValidate(r.buf, rep) IN
         [res |-> v.res, trace |-> r.trace \o v.trace]

\* ------------------------------------------------------------ the machine
\* An enumerated HID interface: its ids, whether open_path succeeds on it and
\* whether it accepts the 2-byte feature report probe.
HidKinds ==
    {[vid |-> RAZER_VID, pid |-> 1, opens |-> TRUE, probe |-> TRUE],
     [vid |-> RAZER_VID, pid |-> 1, opens |-> TRUE, probe |-> FALSE],
     [vid |-> RAZER_VID, pid |-> 1, opens |-> FALSE, probe |-> FALSE],
     [vid |-> RAZER_VID, pid |-> 2, opens |-> TRUE, probe |-> TRUE],
     [vid |-> 1133, pid |-> 1, opens |-> TRUE, probe |-> TRUE]}
HidLists == UNION {[1..n -> HidKinds] : n \in 0..MaxIfaces}

FeaturesOf(prefix) ==
    IF Len(prefix) = 8 THEN ALL_FEATURES
    ELSE IF prefix[7] = "4" THEN {"fan", "perf"}
    ELSE {"fan"}
Descriptors ==
    {[model_number_prefix |-> p, pid |-> q, features |-> FeaturesOf(p)] :
        p \in Prefixes, q \in Pids}
Tables == UNION {[1..n -> Descriptors] : n \in 0..MaxTable}
DefaultTable ==
    <<[model_number_prefix |-> <<"R", "Z", "0", "9", "-", "0", "4", "1">>,
       pid |-> 2, features |-> ALL_FEATURES],
      [model_number_prefix |-> <<"R", "Z", "0", "9", "-", "0", "4">>,
       pid |-> 1, features |-> {"fan", "perf"}]>>

Requests == {PacketNew(c, 1, Zeros(ArgLen)) : c \in Bytes}
NoReport == <<>>
NoDevice == <<>>
\* new_arg holds the descriptor the call handed to Device::new, if it got that far.
NoDescriptor == <<>>
\* cli is NoCli until razer-cli has parsed its command line.
NoCli == <<>>

\* Every machine with the table as shipped, and every table on a few machines.
Machines ==
    {<<p, s, h, TRUE, DefaultTable>> : p \in Platforms, s \in Skus, h \in HidLists}
    \cup {<<p, s, h, TRUE, t>> :
            p \in {"linux"},
            s \in {x \in Skus : ReadModelLinux(x).ok},
            h \in {x \in HidLists : Len(x) = 1 /\ x[1].vid = RAZER_VID /\ x[1].opens},
            t \in Tables}
    \cup {<<p, s, h, FALSE, DefaultTable>> :
            p \in {"linux"}, s \in Skus, h \in {x \in HidLists : Len(x) = 1}}

Idle ==
    /\ pc = "ready"
    /\ device = NoDevice
    /\ handles = {}
    /\ op = "none"
    /\ pid_arg = 0
    /\ new_arg = NoDescriptor
    /\ report = NoReport
    /\ io = NoIo
    /\ result = Ok
    /\ trace = <<>>
    /\ cli = NoCli

Init ==
    /\ \E m \in Machines :
         /\ platform = m[1]
         /\ sku = m[2]
         /\ hid = m[3]
         /\ hidapi_ok = m[4]
         /\ SUPPORTED = m[5]
    /\ Idle

\* The handles a call leaves open: opened and not closed.
OpenHandles(tr) ==
    {tr[i].on : i \in {j \in 1..Len(tr) : tr[j].ev = "open"}}
    \ {tr[i].on : i \in {j \in 1..Len(tr) : tr[j].ev = "close"}}

\* razer-cli enumerate
CallEnumerate ==
    /\ op = "none"
    /\ \E pids \in PidOrders(hid) :
         LET e == Enumerate(hid, hidapi_ok, platform, sku, pids) IN
         /\ result' = e.res
         /\ trace' = e.trace
    /\ op' = "enumerate"
    /\ UNCHANGED <<env, pc, device, handles, pid_arg, new_arg, report, io, cli>>

\* razer-cli auto: Device::detect()
CallDetect ==
    /\ op = "none"
    /\ \E pids \in PidOrders(hid) :
         LET d == Detect(hid, hidapi_ok, platform, sku, SUPPORTED, pids) IN
         /\ result' = d.res
         /\ trace' = d.trace
         /\ device' = IF d.res.ok
                      THEN <<[path |-> d.path, info |-> d.info[1]]>>
                      ELSE NoDevice
         /\ handles' = OpenHandles(d.trace)
         /\ new_arg' = d.info
    /\ op' = "detect"
    /\ UNCHANGED <<env, pc, pid_arg, report, io, cli>>

\* razer-cli manual --pid: Device::new on the placeholder descriptor
CallManual ==
    /\ op = "none"
    /\ \E pid \in Pids :
         LET n == DeviceNew(hid, hidapi_ok, ManualDescriptor(pid), <<>>) IN
         /\ pid_arg' = pid
         /\ result' = IF n.ok THEN Ok ELSE Err(n.err)
         /\ trace' = n.trace
         /\ device' = IF n.ok
                      THEN <<[path |-> n.path, info |-> ManualDescriptor(pid)]>>
                      ELSE NoDevice
         /\ handles' = OpenHandles(n.trace)
         /\ new_arg' = <<ManualDescriptor(pid)>>
    /\ op' = "manual"
    /\ UNCHANGED <<env, pc, report, io, cli>>

\* device.send(report), to the end of the write: the call returns here when the
\* write fails, and goes on to the read otherwise.
SendWriteCall ==
    /\ pc = "ready"
    /\ device # NoDevice
    /\ \E rep \in Requests, write_ok \in BOOLEAN :
         LET w == WriteStep(device[1], write_ok) IN
         /\ report' = rep
         /\ io' = [NoIo EXCEPT !.write_ok = write_ok]
         /\ trace' = w.trace
         /\ result' = IF w.ok THEN Pending ELSE Err("Failed to send feature report")
         /\ pc' = IF w.ok THEN "written" ELSE "ready"
    /\ op' = "send"
    /\ UNCHANGED <<env, device, handles, pid_arg, new_arg>>

\* A send by a caller of the library.
SendWrite == SendWriteCall /\ UNCHANGED cli

\* device.send(report), from the second delay to its return.
SendReadCall ==
    /\ pc = "written"
    /\ \E rd \in ReadOutcomes :
         LET s == SendTail(device[1], report, rd) IN
         /\ io' = [io EXCEPT !.read = rd]
         /\ result' = s.res
         /\ trace' = trace \o s.trace
    /\ pc' = "ready"
    /\ UNCHANGED <<env, device, handles, op, pid_arg, new_arg, report>>

SendRead == SendReadCall /\ UNCHANGED cli

\* The process ends: the session, if any, is dropped and its handle closed.
Exit ==
    /\ pc = "ready"
    /\ op # "none"
    /\ pc' = "ready"
    /\ device' = NoDevice
    /\ handles' = {}
    /\ op' = "none"
    /\ pid_arg' = 0
    /\ new_arg' = NoDescriptor
    /\ report' = NoReport
    /\ io' = NoIo
    /\ result' = Ok
    /\ trace' = <<>>
    /\ cli' = NoCli
    /\ UNCHANGED env

Next ==
    \/ CallEnumerate
    \/ CallDetect
    \/ CallManual
    \/ SendWrite
    \/ SendRead
    \/ Exit

Spec == Init /\ [][Next]_vars

\* ---------------------------------------------------------------------------
\* razer-cli (razer-cli/src/main.rs): the command line in front of the library.
\* cli records what main has parsed and how far handle() has got:
\*   sub      the subcommand given after auto / manual
\*   nargs    the number of ARGS values given to cmd
\*   offered  the names of the feature commands registered with the parser
\*   left     the features whose handlers still have a device command to run
\*   feature  the feature whose handler issued the latest device command
\*   done     the device commands the running handler has completed
\*   notified whether a success message has been emitted
\*   exit     "none" while running, then "ok", "err", "usage" or "panic"
\* ---------------------------------------------------------------------------

\* iter_features! yields every feature; the filter keeps those named in feature_list.
GenCliFeaturesUnfiltered(feature_list) == ALL_FEATURES

GenCliFeatures(feature_list) == {f \in ALL_FEATURES : f \in feature_list}

\* main: device.info.features after detect, feature::ALL_FEATURES otherwise.
FeatureList(is_auto_mode, dev) == IF is_auto_mode THEN dev.info.features ELSE ALL_FEATURES

\* cli_features: the generated features with CustomCommand pushed last.
CliFeatures(feature_list) == GenCliFeatures(feature_list) \cup {"cmd"}

\* The order in which iter_features! lists the features, hence the order of the handlers.
FeatureOrder == <<"fan", "perf", "kbd-backlight">>

\* Subcommands a user may type: fan stands for "fan auto", perf for "perf mode".
Subcommands == ALL_FEATURES \cup {"cmd", "info"}

\* Device commands a handler issues: perf mode reads the old mode, then sets the new
\* one; every other setter and every info getter drawn here issues one.
Needed(sub, f) == IF sub = "perf" /\ f = "perf" THEN 2 ELSE 1

\* Fan and Perf log a failed getter under info and carry on; every other command is `?`.
Tolerates(sub, f) == sub = "info" /\ f \in {"fan", "perf"}

\* The setters that notify after their command; CustomCommand notifies before it.
NotifiesAfter(sub, f) == sub # "info" /\ f # "cmd"

CliStart(sub, nargs, offered, left) ==
    [sub |-> sub, nargs |-> nargs, offered |-> offered, left |-> left,
     feature |-> "", done |-> 0, notified |-> FALSE,
     exit |-> IF left = <<>> THEN "ok" ELSE "none"]

\* The handler of Head(c.left) returns Ok: handle() moves to the next feature.
HandlerReturns(c, notify) ==
    [c EXCEPT !.left = Tail(c.left), !.done = 0,
              !.notified = c.notified \/ notify,
              !.exit = IF Tail(c.left) = <<>> THEN "ok" ELSE "none"]

\* A device command of the running handler has returned.
AfterCommand(c, ok) ==
    LET f == Head(c.left) IN
    IF ok
    THEN IF c.done + 1 < Needed(c.sub, f)
         THEN [c EXCEPT !.done = c.done + 1]
         ELSE HandlerReturns(c, NotifiesAfter(c.sub, f))
    ELSE IF Tolerates(c.sub, f)
         THEN HandlerReturns(c, FALSE)
         ELSE [c EXCEPT !.left = <<>>, !.exit = "err"]

\* cmd.get_matches() and the entry of handle(): an unregistered subcommand is a usage
\* error; cmd unwraps ARGS, notifies, then runs; info visits every offered feature.
Dispatch(sub, nargs, offered) ==
    IF sub \notin offered \cup {"info"}
    THEN [CliStart(sub, nargs, offered, <<>>) EXCEPT !.exit = "usage"]
    ELSE IF sub = "info"
    THEN CliStart(sub, nargs, offered, SelectSeq(FeatureOrder, LAMBDA f : f \in offered))
    ELSE IF sub = "cmd"
    THEN IF nargs = 0
         THEN [CliStart(sub, nargs, offered, <<>>) EXCEPT !.exit = "panic"]
         ELSE [CliStart(sub, nargs, offered, <<sub>>) EXCEPT !.notified = TRUE]
    ELSE CliStart(sub, nargs, offered, <<sub>>)

\* main after the session is bound. In manual mode every subcommand drawn here is
\* registered, so parsing before or after Device::new gives the same run.
CliDispatch ==
    /\ pc = "ready"
    /\ device # NoDevice
    /\ cli = NoCli
    /\ op \in {"detect", "manual"}
    /\ \E sub \in Subcommands, nargs \in 0..MaxArgs :
         /\ sub # "cmd" => nargs = 0
         /\ cli' = Dispatch(sub, nargs, CliFeatures(FeatureList(op = "detect", device[1])))
    /\ UNCHANGED <<env, device, handles, pc, op, pid_arg, new_arg, report, io, result, trace>>

Running == cli # NoCli /\ cli.exit = "none"

\* A handler's device command starts: the write half of Device::send.
CliSendWrite ==
    /\ Running
    /\ SendWriteCall
    /\ cli' = IF pc' = "written"
              THEN [cli EXCEPT !.feature = Head(cli.left)]
              ELSE AfterCommand([cli EXCEPT !.feature = Head(cli.left)], FALSE)

\* A handler's device command ends: the read half of Device::send.
CliSendRead ==
    /\ Running
    /\ SendReadCall
    /\ cli' = AfterCommand(cli, result'.ok)

\* The process ends once main has returned, failed or panicked.
CliExit ==
    /\ device = NoDevice \/ (cli # NoCli /\ cli.exit # "none")
    /\ Exit

CliMachines ==
    {m \in Machines : Len(m[3]) = 1 /\ m[4]}

CliInit ==
    /\ \E m \in CliMachines :
         /\ platform = m[1] /\ sku = m[2] /\ hid = m[3]
         /\ hidapi_ok = m[4] /\ SUPPORTED = m[5]
    /\ Idle

CliNext ==
    \/ CallDetect
    \/ CallManual
    \/ CliDispatch
    \/ CliSendWrite
    \/ CliSendRead
    \/ CliExit

CliSpec == CliInit /\ [][CliNext]_vars

\* ------------------------------------------------------------ claims
Returned(o) == pc = "ready" /\ op = o

\* The candidates of the Device::new call the state records.
NewCands == Candidates(hid, new_arg[1].pid)

\* The first candidate, in enumeration order, that opens and accepts the probe; 0 if none.
Live(c) == {k \in 1..Len(c) : hid[c[k]].opens /\ hid[c[k]].probe}
FirstLive(c) ==
    IF Live(c) = {} THEN 0
    ELSE c[CHOOSE k \in Live(c) : \A j \in Live(c) : k <= j]

\* C1 (as claimed): whenever Device::new has run on a candidate list that holds a
\* candidate which opens and accepts the probe, the session is bound to the first
\* such candidate, also when an earlier candidate fails to open.
C1_BoundToFirstLiveCandidate ==
    (pc = "ready" /\ op \in {"manual", "detect"} /\ new_arg # NoDescriptor /\ hidapi_ok
       /\ FirstLive(NewCands) # 0)
    => (device # NoDevice /\ device[1].path = FirstLive(NewCands))

\* C2 (as claimed): when Device::new fails although some interface matched
\* (0x1532, pid), its error differs from the error it returns when none matched.
C2_NoSessionErrorDistinctFromNoCandidates ==
    (pc = "ready" /\ op \in {"manual", "detect"} /\ new_arg # NoDescriptor /\ hidapi_ok
       /\ ~result.ok /\ NewCands # <<>>)
    => result.err # NewLoop(hid, <<>>, 1, <<>>).err

\* The scenario of C3: a session opened manually for product id p, for which exactly
\* two interfaces are exposed; the first opens and rejects the probe, the second
\* opens and accepts it.
TwoInterfacesSecondLive(p) ==
    LET c == Candidates(hid, p) IN
    /\ hidapi_ok
    /\ Len(c) = 2
    /\ hid[c[1]].opens /\ ~hid[c[1]].probe
    /\ hid[c[2]].opens /\ hid[c[2]].probe

IoEvents(tr) == {j \in 1..Len(tr) : tr[j].ev \in {"write", "read"}}

\* C3: in that scenario the manual open succeeds bound to the second interface, and
\* in every later state, whatever sends succeeded or failed, the session holds the
\* second interface and every feature report write and read of a send was issued
\* on it, none on the first.
C3_SessionRoutingFixed ==
    /\ (Returned("manual") /\ TwoInterfacesSecondLive(pid_arg))
         => (result.ok /\ device # NoDevice)
    /\ (device # NoDevice /\ pid_arg # 0 /\ TwoInterfacesSecondLive(pid_arg))
         => LET second == Candidates(hid, pid_arg)[2] IN
            /\ device[1].path = second
            /\ handles = {second}
            /\ op = "send" => \A j \in IoEvents(trace) : trace[j].on = second

\* C3's case: in the scenario, a send that got as far as its read has failed.
C3_Witness ==
    /\ Returned("send")
    /\ TwoInterfacesSecondLive(pid_arg)
    /\ ~result.ok
    /\ \E j \in IoEvents(trace) : trace[j].ev = "read"

\* What the read of the send the state records left in response_buf, and what it
\* says about it: read as the wire format lays it out.
Buf == io.read.buf
FullRead == io.write_ok /\ io.read.read_ok /\ io.read.n = 1 + FrameSize
ChecksumVerifies == Buf[1 + FrameSize] = Checksum(SubSeq(Buf, 2, FrameSize))
IdentityMatches == Buf[2] = report.command_class /\ Buf[3] = report.command_id
Count(tr, e) == Cardinality({j \in 1..Len(tr) : tr[j].ev = e})

\* C4: a send returns a frame only if in that call the write succeeded, the read
\* returned exactly 1 + FrameSize bytes, the checksum of the frame read verifies and
\* its command identity is the request's; the frame returned is the one read. In
\* every other case it returns an error and no frame.
C4_SendReturnsOnlyValidatedFrame ==
    Returned("send") =>
        IF result.ok
        THEN /\ FullRead
             /\ ChecksumVerifies
             /\ IdentityMatches
             /\ Encode(result.frame) = Tail(Buf)
        ELSE /\ result.frame = NoFrame
             /\ result.err \notin {"", "pending"}

\* C4's case: a send has returned a frame.
C4_Witness == Returned("send") /\ result.ok /\ result.frame # NoFrame

\* C5: of a full read, a response whose checksum verifies but whose command identity
\* differs from the request's is rejected as an identity mismatch; one whose
\* checksum does not verify is rejected as a checksum failure, also when its
\* identity differs too; the two errors are different.
C5_ChecksumBeforeIdentity ==
    (Returned("send") /\ FullRead) =>
        /\ (ChecksumVerifies /\ ~IdentityMatches)
             => (~result.ok /\ result.err = "Response does not match the report")
        /\ ~ChecksumVerifies
             => (~result.ok /\ result.err = "checksum")
        /\ (~result.ok /\ ChecksumVerifies) => result.err # "checksum"

\* C5's case: a response that fails both checks has been read.
C5_Witness ==
    Returned("send") /\ FullRead /\ ~ChecksumVerifies /\ ~IdentityMatches

\* C6: a read that returns any count but 1 + FrameSize makes the send fail with the
\* size error, and the buffer is neither decoded nor matched with the request.
C6_WrongSizeRejectedUndecoded ==
    (Returned("send") /\ io.write_ok /\ io.read.read_ok /\ io.read.n # 1 + FrameSize)
    => /\ ~result.ok
       /\ result.err = "Response size"
       /\ Count(trace, "decode") = 0
       /\ Count(trace, "validate") = 0

\* C6's case: the read returned FrameSize bytes, one short, holding what would
\* decode to a matching frame.
C6_Witness ==
    /\ Returned("send")
    /\ io.write_ok /\ io.read.read_ok /\ io.read.n = FrameSize
    /\ ChecksumVerifies /\ IdentityMatches

\* C7: a send issues at most one write and at most one read, and when the write
\* fails it returns an error with no read issued.
C7_NoRetry ==
    op = "send" =>
        /\ Count(trace, "write") <= 1
        /\ Count(trace, "read") <= 1
        /\ (pc = "ready" /\ ~io.write_ok) => (~result.ok /\ Count(trace, "read") = 0)

\* C7's case: a send whose write failed has returned.
C7_Witness == Returned("send") /\ ~io.write_ok /\ Count(trace, "write") = 1

\* C8: the calls of a send are, in order, the settle delay, the write, the
\* processing delay, the read: the trace starts with the first delay and the write,
\* a read stands right after the second delay, which stands right after the
\* accepted write, and the second delay is the longer.
C8_SendOrder ==
    /\ PRE_WRITE_MICROS < POST_WRITE_MICROS
    /\ op = "send" =>
         /\ Len(trace) >= 2
         /\ trace[1] = Ev("sleep", PRE_WRITE_MICROS)
         /\ trace[2].ev = "write"
         /\ \A j \in 1..Len(trace) :
              /\ trace[j].ev = "read"
                   => (j = 4 /\ trace[3] = Ev("sleep", POST_WRITE_MICROS) /\ io.write_ok)
              /\ trace[j].ev = "write" => j = 2
              /\ trace[j].ev = "sleep" => j \in {1, 3}

\* C8's case: a send has gone through its read and returned.
C8_Witness == Returned("send") /\ Count(trace, "read") = 1

\* The model identifier of the machine as Device::enumerate accepts it, if it does.
Enumerated == Enumerate(hid, hidapi_ok, platform, sku, <<>>).res
Matching ==
    {k \in 1..Len(SUPPORTED) :
        StartsWith(Enumerated.model, SUPPORTED[k].model_number_prefix)}
FirstMatching == CHOOSE k \in Matching : \A j \in Matching : k <= j
Range(f) == {f[x] : x \in DOMAIN f}

\* C9: when the identifier passed the vendor check, detect hands Device::new the first
\* descriptor in table order whose prefix is a prefix of the identifier, whatever
\* longer prefixes follow it, and a session it returns carries that descriptor; when
\* no descriptor matches it fails, reporting the identifier and the product ids
\* seen, and opens no device handle.
C9_FirstMatchInTableOrder ==
    (Returned("detect") /\ Enumerated.ok) =>
        IF Matching = {}
        THEN /\ ~result.ok
             /\ result.err = "Model is not supported"
             /\ result.model = Enumerated.model
             /\ Range(result.pids) = RazerPids(hid)
             /\ new_arg = NoDescriptor
             /\ device = NoDevice
             /\ handles = {}
             /\ Count(trace, "open") + Count(trace, "open_failed") = 0
        ELSE /\ new_arg = <<SUPPORTED[FirstMatching]>>
             /\ result.ok => (device # NoDevice /\ device[1].info = SUPPORTED[FirstMatching])

\* C9's case: detect has returned on a table where "RZ09-04" stands before
\* "RZ09-041" and both are prefixes of the identifier.
C9_Witness ==
    /\ Returned("detect")
    /\ Enumerated.ok
    /\ Matching = {1, 2}
    /\ Len(SUPPORTED[1].model_number_prefix) < Len(SUPPORTED[2].model_number_prefix)
    /\ new_arg = <<SUPPORTED[1]>>

\* C10 (as claimed): whenever the provider can read an identifier that does not
\* follow the vendor convention, detect and enumerate end in "not a Razer laptop",
\* the core's own check, not in the failure to read the model.
C10_NonConformingIdentifierNotRecognized ==
    (pc = "ready" /\ op \in {"detect", "enumerate"}
       /\ hidapi_ok /\ RazerPids(hid) # {}
       /\ platform # "other" /\ sku # Unreadable
       /\ ~StartsWith(Trim(sku), RZ09))
    => (~result.ok /\ result.err = "Detected model is not a Razer laptop")

\* ------------------------------------------------------------ claims: detection
VendorIfaces == {i \in 1..Len(hid) : hid[i].vid = RAZER_VID}
Opened(tr) == Count(tr, "open") + Count(tr, "open_failed")

\* C11: with no interface under vendor 0x1532, detect and enumerate fail with the
\* vendor-absent error without the model identifier being read, without a
\* descriptor being looked up for Device::new and without a handle being opened;
\* and the model identifier is read only where a vendor interface was enumerated.
C11_VendorCheckedBeforeModelRead ==
    (pc = "ready" /\ op \in {"detect", "enumerate"}) =>
        /\ (hidapi_ok /\ VendorIfaces = {})
             => /\ ~result.ok
                /\ result.err = "No Razer devices found"
                /\ Count(trace, "read_model") = 0
                /\ new_arg = NoDescriptor
                /\ Opened(trace) = 0
                /\ handles = {}
                /\ device = NoDevice
        /\ Count(trace, "read_model") > 0
             => /\ VendorIfaces # {}
                /\ \E j \in 1..Len(trace) :
                     /\ trace[j].ev = "hid_enumerate"
                     /\ \A i \in 1..Len(trace) : trace[i].ev = "read_model" => j < i

\* C11's case: detect has returned on a machine whose only interface is another
\* vendor's, and whose model identifier could have been read.
C11_Witness ==
    /\ Returned("detect")
    /\ hidapi_ok
    /\ hid # <<>>
    /\ VendorIfaces = {}
    /\ read_device_model(platform, sku).ok

\* No interface under the vendor id both opens and accepts the probe.
NoLiveResponder == \A i \in VendorIfaces : ~(hid[i].opens /\ hid[i].probe)
ModelConforms ==
    /\ read_device_model(platform, sku).ok
    /\ StartsWith(read_device_model(platform, sku).model, RZ09)

\* C12 (as claimed): enumerate over vendor interfaces none of which is a live
\* responder fails with the session-open error and never succeeds.
C12_EnumerateFailsWithoutLiveResponder ==
    (Returned("enumerate") /\ hidapi_ok /\ VendorIfaces # {} /\ NoLiveResponder)
    => (~result.ok /\ result.err \in {"Failed to open device", "hid open error"})

\* C12 (amended): enumerate with no vendor interface returns the vendor-absent
\* error; with vendor interfaces none of which is a live responder it opens and
\* probes nothing and succeeds exactly when the model identifier can be read and
\* follows the convention; detect on such a machine fails and returns no session.
C12_EnumerateDoesNotProbe ==
    /\ (Returned("enumerate") /\ hidapi_ok /\ VendorIfaces = {})
         => (~result.ok /\ result.err = "No Razer devices found")
    /\ (Returned("enumerate") /\ hidapi_ok /\ VendorIfaces # {} /\ NoLiveResponder)
         => /\ Opened(trace) = 0
            /\ Count(trace, "probe") = 0
            /\ handles = {}
            /\ device = NoDevice
            /\ result.ok <=> ModelConforms
    /\ (Returned("detect") /\ NoLiveResponder)
         => (~result.ok /\ device = NoDevice /\ handles = {})

\* C12's case: enumerate has succeeded although no vendor interface is a live responder.
C12_Witness ==
    /\ Returned("enumerate")
    /\ VendorIfaces # {}
    /\ NoLiveResponder
    /\ result.ok

\* What Device::new makes of a candidate list: a session exactly when some candidate
\* opens and accepts the probe and every candidate before it opens.
Reachable(c) == {k \in Live(c) : \A j \in 1..(k - 1) : hid[c[j]].opens}

\* C13: a manual open never reads the model identifier and looks nothing up in the
\* registry: the descriptor handed to Device::new is the placeholder with the
\* caller's product id and every capability, whether it succeeds is decided by the
\* interfaces enumerated for (0x1532, pid) alone, and the session carries that
\* descriptor.
C13_ManualSkipsModelMatching ==
    Returned("manual") =>
        /\ Count(trace, "read_model") = 0
        /\ new_arg = <<ManualDescriptor(pid_arg)>>
        /\ new_arg[1].pid = pid_arg
        /\ new_arg[1].features = ALL_FEATURES
        /\ new_arg[1] \notin Range(SUPPORTED)
        /\ hidapi_ok => (result.ok <=> Reachable(Candidates(hid, pid_arg)) # {})
        /\ result.ok => (device # NoDevice /\ device[1].info = new_arg[1])

\* C13's case: a manual open has succeeded on a machine where detect fails before
\* it opens anything.
C13_Witness ==
    /\ Returned("manual")
    /\ result.ok
    /\ ~Enumerated.ok

\* C15: a successful enumerate returns every product id seen under vendor 0x1532
\* once each and no other, and it succeeds whenever a vendor interface exists and
\* the model identifier follows the convention, whether or not a descriptor matches.
C15_EnumeratePidsDistinctAndComplete ==
    Returned("enumerate") =>
        /\ result.ok
             => /\ \A q \in Pids :
                     Cardinality({j \in DOMAIN result.pids : result.pids[j] = q})
                       = IF \E i \in VendorIfaces : hid[i].pid = q THEN 1 ELSE 0
                /\ Range(result.pids) \subseteq Pids
        /\ (hidapi_ok /\ VendorIfaces # {} /\ ModelConforms) => result.ok

\* C15's case: enumerate has succeeded with two vendor interfaces of one product id
\* and no descriptor matching the model.
C15_Witness ==
    /\ Returned("enumerate")
    /\ result.ok
    /\ Matching = {}
    /\ \E i, j \in VendorIfaces : i # j /\ hid[i].pid = hid[j].pid

\* C16: a session is bound to an interface of vendor 0x1532 whose product id is the
\* session descriptor's and which accepted the probe, and holds that one handle;
\* a session detect returns carries the descriptor selected from the registry; and
\* when Device::new fails inside detect, detect returns that error as it is.
C16_SessionInvariant ==
    /\ device # NoDevice
         => /\ device[1].path \in VendorIfaces
            /\ hid[device[1].path].pid = device[1].info.pid
            /\ hid[device[1].path].opens
            /\ hid[device[1].path].probe
            /\ handles = {device[1].path}
            /\ new_arg = <<device[1].info>>
            /\ pid_arg = 0 => (Matching # {} /\ device[1].info = SUPPORTED[FirstMatching])
    /\ (Returned("detect") /\ new_arg # NoDescriptor /\ ~result.ok)
         => result.err = DeviceNew(hid, hidapi_ok, new_arg[1], <<>>).err

\* C16's case: detect has returned a session on a machine where another vendor's
\* interface with the same product id is enumerated first.
C16_Witness ==
    /\ Returned("detect")
    /\ device # NoDevice
    /\ \E i \in 1..Len(hid) :
         /\ hid[i].vid # RAZER_VID
         /\ hid[i].pid = device[1].info.pid
         /\ i < device[1].path

Prefix(tr, j) == SubSeq(tr, 1, j)

\* C17: while Device::new runs at most one handle is open, so a candidate that
\* rejected the probe is closed before the next is opened; when it returns a
\* session exactly the session's handle is open, and when it returns an error none is.
C17_HandleAccounting ==
    (pc = "ready" /\ op \in {"manual", "detect"}) =>
        /\ \A j \in 0..Len(trace) : Cardinality(OpenHandles(Prefix(trace, j))) <= 1
        /\ \A j \in 1..Len(trace) :
             trace[j].ev = "open" => OpenHandles(Prefix(trace, j - 1)) = {}
        /\ result.ok => (device # NoDevice /\ handles = {device[1].path})
        /\ ~result.ok => handles = {}

\* C17's case: Device::new has returned a session after a candidate that rejected
\* the probe.
C17_Witness ==
    /\ Returned("manual")
    /\ result.ok
    /\ Count(trace, "close") = 1
    /\ Count(trace, "open") = 2

\* ------------------------------------------------------------------ razer-cli
Dispatched == cli # NoCli
Features == device[1].info.features

\* C14: in auto mode the feature commands registered and dispatched are exactly the
\* matched descriptor's features plus cmd, in manual mode all features plus cmd; a
\* subcommand outside the registered set ends in a usage error before any device
\* command, and every device command is issued by a registered feature's handler.
C14_CapabilityGating ==
    Dispatched =>
        /\ new_arg # NoDescriptor /\ device # NoDevice
        /\ cli.offered = (IF pid_arg = 0 THEN Features ELSE ALL_FEATURES) \cup {"cmd"}
        /\ cli.sub \notin cli.offered \cup {"info"} =>
              /\ cli.exit = "usage"
              /\ cli.feature = ""
              /\ Count(trace, "write") = 0
        /\ cli.feature # "" => cli.feature \in cli.offered
        /\ Count(trace, "write") > 0 => cli.feature \in cli.offered
        /\ \A k \in 1..Len(cli.left) : cli.left[k] \in cli.offered

\* C14's case: in auto mode the feature command the matched descriptor lacks was
\* asked for and rejected as a usage error.
C14_Witness ==
    /\ Dispatched
    /\ pid_arg = 0
    /\ "kbd-backlight" \notin Features
    /\ cli.sub = "kbd-backlight"
    /\ cli.exit = "usage"

\* C18 (as claimed): a success message has been emitted only when the handler's
\* device command has returned success, and never in a run whose command fails.
C18_NotifyOnlyAfterSuccess ==
    Dispatched =>
        /\ cli.notified => (op = "send" /\ pc = "ready" /\ result.ok)
        /\ cli.exit = "err" => ~cli.notified

\* C19 (as claimed): cmd with a COMMAND and no ARGS runs the custom command and
\* ends in Ok or Err, never in a panic.
C19_CmdWithoutArgsRuns ==
    (Dispatched /\ cli.sub = "cmd" /\ cli.nargs = 0) =>
        /\ cli.exit # "panic"
        /\ cli.exit \in {"ok", "err"} => cli.feature = "cmd"

====
